---- MODULE Spec2Model ----
(***************************************************************************)
(* Dr. HealBot stateless consultation API (src/app.py): the /stt, /chat,   *)
(* /tts and /chat-history handlers, the language detector and the prompt   *)
(* formatters, as state machines over the handlers' local variables, the   *)
(* temp directory, the patient-data folder and the event loop.             *)
(*                                                                         *)
(* Text is a sequence of Unicode code points; a prompt is a sequence of    *)
(* lines (tokens), so "+=" on a Python string is \o here.                  *)
(***************************************************************************)
EXTENDS Integers, Sequences, FiniteSets, TLC

\* ------------------------------------------------------------------ bounds
NumTasks == 2          \* concurrent /stt requests in one process
MaxClipChunks == 2     \* longest uploaded clip, in 4000-frame chunks
MaxHistory == 2        \* longest chat_history of a request
MaxTextLen == 2        \* longest text given to detect_language
MaxVisits == 6         \* longest previous_visits list of a patient record
MaxStream == 2         \* most chunks one synthesis stream yields

\* ------------------------------------------------------- program constants
ChunkFrames == 4000    \* wf.readframes(4000)

None == "None"

VARIABLES
    \* ---- /stt (speech_to_text), one slot per in-flight request
    STT_AVAILABLE,     \* module flag set once at import time
    loop,              \* task running on the event-loop thread, 0 when it is free
    pc,                \* pc[r]: position of request r in speech_to_text
    upload,            \* upload[r]: the uploaded clip
    language,          \* language[r]: the "language" query parameter, drawn where
                       \* the handler first reads it (detected_language = ...)
    tmp_input_path,    \* tmp_input_path[r]
    tmp_wav_path,      \* tmp_wav_path[r]
    wf,                \* wf[r]: frames of the opened WAV not yet read
    stt_response,      \* stt_response[r]: the JSONResponse returned
    fs,                \* temp files that exist on disk
    ffmpeg_runs,       \* subprocess.run calls made so far
    recognizers,       \* KaldiRecognizer objects constructed so far
    model              \* model[r]: the Vosk model handed to the recognizer

VARIABLES
    \* ---- /chat (chat), one request
    chat_pc,           \* position of the request in chat
    request,           \* the ChatRequest body
    detected_lang,     \* detected_lang
    system_prompt,     \* system_prompt
    biomarker_report,  \* biomarker_report
    contents,          \* contents handed to model.generate_content
    chat_response,     \* the JSONResponse returned
    biomarker_calls    \* calls of biomarker_predict made so far

VARIABLES
    \* ---- detect_language, one call
    det_text,          \* the argument text
    det_langdetect,    \* what langdetect.detect answers (or "raise") for it
    det_result         \* the value returned, "" before the call

VARIABLES
    \* ---- format_patient_history, one call
    fmt_patient,       \* the argument patient_data
    fmt_language,      \* the argument language
    fmt_context,       \* the value returned
    fmt_called         \* whether the call has returned

VARIABLES
    \* ---- /tts (text_to_speech), one request
    tts_pc,            \* position of the request in text_to_speech
    req,               \* the TTSRequest body
    tts_lang,          \* detected_lang of text_to_speech
    voice,             \* voice
    stream,            \* chunks communicate.stream() has yet to yield
    audio_buffer,      \* the BytesIO: bytes written and position
    tts_response       \* the StreamingResponse or JSONResponse returned

VARIABLES
    \* ---- the patient-data folder and its endpoints
    files,             \* files[f]: the JSON document in file f, or Absent
    store_response,    \* the response of the last folder endpoint called
    last_saved         \* last_saved[n]: the transcript of the last successful
                       \* save for n that no delete for n has followed

storeVars == <<files, store_response, last_saved>>
detVars == <<det_text, det_langdetect, det_result>>
fmtVars == <<fmt_patient, fmt_language, fmt_context, fmt_called>>
ttsVars == <<tts_pc, req, tts_lang, voice, stream, audio_buffer, tts_response>>

sttVars == <<STT_AVAILABLE, loop, pc, upload, language, tmp_input_path,
             tmp_wav_path, wf, stt_response, fs, ffmpeg_runs, recognizers, model>>

chatVars == <<chat_pc, request, detected_lang, system_prompt, biomarker_report,
              contents, chat_response, biomarker_calls>>

vars == <<sttVars, chatVars, detVars, fmtVars, ttsVars, storeVars>>

\* What a step of one part of the service leaves alone.
notStt == <<chatVars, detVars, fmtVars, ttsVars, storeVars>>
notChat == <<sttVars, detVars, fmtVars, ttsVars, storeVars>>
notDetect == <<sttVars, chatVars, fmtVars, ttsVars, storeVars>>
notFormat == <<sttVars, chatVars, detVars, ttsVars, storeVars>>
notTts == <<sttVars, chatVars, detVars, fmtVars, storeVars>>
notStore == <<sttVars, chatVars, detVars, fmtVars, ttsVars>>

\* ------------------------------------------------------------ text helpers
\* str.strip(): whitespace removed at both ends
IsSpace(c) == c \in {9, 10, 13, 32}

RECURSIVE lstrip(_)
lstrip(s) ==
    IF s # <<>> /\ IsSpace(Head(s)) THEN lstrip(Tail(s)) ELSE s

RECURSIVE rstrip(_)
rstrip(s) ==
    IF s # <<>> /\ IsSpace(s[Len(s)]) THEN rstrip(SubSeq(s, 1, Len(s) - 1)) ELSE s

strip(s) == rstrip(lstrip(s))

arabic_pattern_BasicBlockOnly(c) == c \in 1536..1791

\* re.compile(r'[\u0600-\u06FF\u0750-\u077F\u08A0-\u08FF]')
arabic_pattern(c) ==
    \/ c \in 1536..1791
    \/ c \in 1872..1919
    \/ c \in 2208..2303

\* arabic_pattern.search(text)
SearchArabic(text) == \E i \in 1..Len(text) : arabic_pattern(text[i])

\* langdetect.detect(text): some language code, or LangDetectException
LangdetectOutcomes == {"ar", "en", "fr", "raise"}

\* detect_language(text), given what langdetect would answer for the text
detect_language(text, lang) ==
    IF SearchArabic(text) THEN "ar"
    ELSE IF lang = "raise" THEN "en"
    ELSE IF lang = "ar" THEN "ar" ELSE "en"

\* ===================================================================== /stt
Tasks == 1..NumTasks

\* An uploaded clip: what the bytes are, and how many frames of audio they hold.
\* "empty" is a zero-byte upload; a "silent" clip is decodable audio without
\* speech, possibly of zero frames. The longest clip ends in a partial chunk.
LongClip == MaxClipChunks * ChunkFrames - ChunkFrames \div 2
Clips ==
    {[kind |-> "empty", frames |-> 0]}
    \cup [kind : {"silent"}, frames : {0, LongClip}]
    \cup [kind : {"speech"}, frames : {LongClip}]

SttLanguages == {"auto", "en", "ar", "fr"}

InputPath(r) == <<"webm", r>>      \* NamedTemporaryFile(delete=False, suffix=".webm").name
WavPath(r) == <<"wav", r>>         \* tempfile.mktemp(suffix=".wav")

NoResponse ==
    [status_code |-> 0, error |-> "", transcript |-> <<>>,
     detected_language |-> "", status |-> ""]

ErrorResponse(code, msg) ==
    [status_code |-> code, error |-> msg, transcript |-> <<>>,
     detected_language |-> "", status |-> ""]

\* ffmpeg -y -i in -ar 16000 -ac 1 -sample_fmt s16 out, timeout=30:
\* a zero-byte input gives a non-zero exit at once; a decoding run may exceed
\* the timeout.
FfmpegOutcomes(clip) ==
    IF clip.kind = "empty" THEN {"nonzero"}
    ELSE {"ok", "timeout"}

\* (nchannels, sampwidth) read back from the WAV header, or "raise" when
\* wave.open rejects the file.
WavHeaders == {<<1, 2>>, <<2, 2>>, <<1, 1>>, <<0, 0>>}

\* recognizer.FinalResult() text: nothing for silence, anything for speech.
FinalTexts(clip) ==
    IF clip.kind = "silent" THEN {<<>>}
    ELSE {<<>>, <<32>>, <<104>>, <<32, 104, 32>>}

SttUnavailable_Skipped == FALSE

\* if not STT_AVAILABLE
SttUnavailable == ~STT_AVAILABLE

\* finally: for path in [tmp_input_path, tmp_wav_path]:
\*              if path and os.path.exists(path): os.remove(path)
Cleanup(disk, in_path, wav_path) ==
    disk \ {p \in {in_path, wav_path} : p # None}

\* A handler step runs on the event-loop thread: it starts only when the
\* loop is free.
LoopFree == loop = 0

\* Whether the blocking call of request r occupies the event-loop thread
\* (a plain call inside "async def") or a worker thread (asyncio.to_thread).
BlockingCallHolder(r) == r

\* Handler entry up to "content = await file.read()".
SttBegin(r) ==
    /\ pc[r] = "idle"
    /\ LoopFree
    /\ \E clip \in Clips : upload' = [upload EXCEPT ![r] = clip]
    /\ IF SttUnavailable
       THEN /\ stt_response' = [stt_response EXCEPT ![r] =
                    ErrorResponse(503, "Speech-to-text not available. Vosk models not found.")]
            /\ pc' = [pc EXCEPT ![r] = "done"]
            /\ UNCHANGED <<tmp_input_path, tmp_wav_path, fs>>
       ELSE /\ tmp_input_path' = [tmp_input_path EXCEPT ![r] = None]
            /\ tmp_wav_path' = [tmp_wav_path EXCEPT ![r] = None]
            /\ fs' = fs \cup {InputPath(r)}
            /\ pc' = [pc EXCEPT ![r] = "await_read"]
            /\ UNCHANGED stt_response
    /\ UNCHANGED <<STT_AVAILABLE, loop, language, wf, ffmpeg_runs, recognizers, model>>
    /\ UNCHANGED notStt

\* file.read() raises (or tmp_input.write does): "except Exception", then finally.
SttReadFails(r) ==
    /\ pc[r] = "await_read"
    /\ LoopFree
    /\ stt_response' = [stt_response EXCEPT ![r] = ErrorResponse(500, "exception")]
    /\ fs' = Cleanup(fs, tmp_input_path[r], tmp_wav_path[r])
    /\ pc' = [pc EXCEPT ![r] = "done"]
    /\ UNCHANGED <<STT_AVAILABLE, loop, upload, language, tmp_input_path,
                   tmp_wav_path, wf, ffmpeg_runs, recognizers, model>>
    /\ UNCHANGED notStt

\* file.read() returns: the content is written, both paths are named and
\* subprocess.run(ffmpeg ...) is entered.
SttReadDone(r) ==
    /\ pc[r] = "await_read"
    /\ LoopFree
    /\ tmp_input_path' = [tmp_input_path EXCEPT ![r] = InputPath(r)]
    /\ tmp_wav_path' = [tmp_wav_path EXCEPT ![r] = WavPath(r)]
    /\ ffmpeg_runs' = ffmpeg_runs + 1
    /\ loop' = BlockingCallHolder(r)
    /\ pc' = [pc EXCEPT ![r] = "ffmpeg"]
    /\ UNCHANGED <<STT_AVAILABLE, upload, language, wf, stt_response, fs, recognizers, model>>
    /\ UNCHANGED notStt

\* detected_language = language if language != "auto" else "en"
DetectedLanguage(lang) == IF lang # "auto" THEN lang ELSE "en"

\* model = vosk_model_ar if detected_language == "ar" else vosk_model_en
SelectModel(detected_language) ==
    IF detected_language = "ar" THEN "vosk_model_ar" ELSE "vosk_model_en"

\* subprocess.run returns or raises TimeoutExpired; on success the WAV is
\* opened and validated and the recognizer is constructed.
SttFfmpegReturn(r) ==
    /\ pc[r] = "ffmpeg"
    /\ loop \in {0, r}
    /\ \E outcome \in FfmpegOutcomes(upload[r]), written \in BOOLEAN, hdr \in WavHeaders,
          lang \in SttLanguages :
        LET disk == IF outcome = "ok" \/ written THEN fs \cup {tmp_wav_path[r]} ELSE fs
            fail(code, msg) ==
                /\ stt_response' = [stt_response EXCEPT ![r] = ErrorResponse(code, msg)]
                /\ fs' = Cleanup(disk, tmp_input_path[r], tmp_wav_path[r])
                /\ pc' = [pc EXCEPT ![r] = "done"]
                /\ loop' = 0
                /\ UNCHANGED <<wf, recognizers, language, model>>
        IN  CASE outcome = "timeout" -> fail(500, "Audio processing timeout")
              [] outcome = "nonzero" -> fail(500, "Audio conversion failed")
              [] outcome = "ok" /\ hdr = <<0, 0>> -> fail(500, "exception")
              [] outcome = "ok" /\ hdr # <<0, 0>> /\ (hdr[1] # 1 \/ hdr[2] # 2) ->
                    fail(400, "Invalid WAV format")
              [] OTHER ->
                    /\ wf' = [wf EXCEPT ![r] = upload[r].frames]
                    /\ language' = [language EXCEPT ![r] = lang]
                    /\ model' = [model EXCEPT ![r] = SelectModel(DetectedLanguage(lang))]
                    /\ recognizers' = recognizers + 1
                    /\ fs' = disk
                    /\ pc' = [pc EXCEPT ![r] = "recognize"]
                    /\ loop' = BlockingCallHolder(r)
                    /\ UNCHANGED stt_response
    /\ UNCHANGED <<STT_AVAILABLE, upload, tmp_input_path, tmp_wav_path, ffmpeg_runs>>
    /\ UNCHANGED notStt

Min(a, b) == IF a < b THEN a ELSE b

\* data = wf.readframes(4000); len(data) # 0; recognizer.AcceptWaveform(data)
SttFeedChunk(r) ==
    /\ pc[r] = "recognize"
    /\ loop \in {0, r}
    /\ wf[r] > 0
    /\ wf' = [wf EXCEPT ![r] = wf[r] - Min(ChunkFrames, wf[r])]
    /\ loop' = BlockingCallHolder(r)
    /\ UNCHANGED <<STT_AVAILABLE, pc, upload, language, tmp_input_path, tmp_wav_path,
                   stt_response, fs, ffmpeg_runs, recognizers, model>>
    /\ UNCHANGED notStt

\* AcceptWaveform or FinalResult raises: "except Exception", then finally.
SttRecognizerFails(r) ==
    /\ pc[r] = "recognize"
    /\ loop \in {0, r}
    /\ stt_response' = [stt_response EXCEPT ![r] = ErrorResponse(500, "exception")]
    /\ fs' = Cleanup(fs, tmp_input_path[r], tmp_wav_path[r])
    /\ pc' = [pc EXCEPT ![r] = "done"]
    /\ loop' = 0
    /\ UNCHANGED <<STT_AVAILABLE, upload, language, tmp_input_path, tmp_wav_path,
                   wf, ffmpeg_runs, recognizers, model>>
    /\ UNCHANGED notStt

\* len(data) == 0: break; FinalResult; the transcript is returned.
SttFinish(r) ==
    /\ pc[r] = "recognize"
    /\ loop \in {0, r}
    /\ wf[r] = 0
    /\ \E text \in FinalTexts(upload[r]) :
        LET transcript == strip(text)
            detected_language == DetectedLanguage(language[r])
        IN  stt_response' = [stt_response EXCEPT ![r] =
                [status_code |-> 200, error |-> "", transcript |-> transcript,
                 detected_language |-> detected_language,
                 status |-> IF transcript # <<>> THEN "success" ELSE "no_speech"]]
    /\ fs' = Cleanup(fs, tmp_input_path[r], tmp_wav_path[r])
    /\ pc' = [pc EXCEPT ![r] = "done"]
    /\ loop' = 0
    /\ UNCHANGED <<STT_AVAILABLE, upload, language, tmp_input_path, tmp_wav_path,
                   wf, ffmpeg_runs, recognizers, model>>
    /\ UNCHANGED notStt

\* The models are loaded, or not, once at import time.
StartStt(available) ==
    /\ STT_AVAILABLE \in available
    /\ loop = 0
    /\ pc = [r \in Tasks |-> "idle"]
    /\ upload = [r \in Tasks |-> [kind |-> "empty", frames |-> 0]]
    /\ language = [r \in Tasks |-> "auto"]
    /\ tmp_input_path = [r \in Tasks |-> None]
    /\ tmp_wav_path = [r \in Tasks |-> None]
    /\ wf = [r \in Tasks |-> 0]
    /\ stt_response = [r \in Tasks |-> NoResponse]
    /\ fs = {}
    /\ ffmpeg_runs = 0
    /\ recognizers = 0
    /\ model = [r \in Tasks |-> None]

InitStt == StartStt(BOOLEAN)

NextStt ==
    \E r \in Tasks :
        \/ SttBegin(r)
        \/ SttReadFails(r)
        \/ SttReadDone(r)
        \/ SttFfmpegReturn(r)
        \/ SttFeedChunk(r)
        \/ SttRecognizerFails(r)
        \/ SttFinish(r)

\* ==================================================== Python dict values
\* A dict is a record: kind "none" for None, the set of keys present, and a
\* value per key (the empty value where the key is absent).
Truthy(d) == d.kind = "dict" /\ d.keys # {}          \* "if d:"
IsNotNone(d) == d.kind # "none"                      \* "d is not None"
Has(d, k) == k \in d.keys /\ d[k] # <<>>             \* "if d.get(k):" for a list value

\* f"{prefix}{item}\n" for each item, in order
Lines(prefix, items) ==
    [i \in 1..(2 * Len(items)) |-> IF i % 2 = 1 THEN prefix ELSE items[i \div 2]]

\* items[-n:]
LastN(items, n) ==
    IF Len(items) <= n THEN items ELSE SubSeq(items, Len(items) - n + 1, Len(items))

RECURSIVE Flatten(_)
Flatten(seqs) == IF seqs = <<>> THEN <<>> ELSE Head(seqs) \o Flatten(Tail(seqs))

\* info.get(k, 'N/A')
InfoGet(info, k) == IF k \in info.keys THEN info[k] ELSE "N/A"

\* "=" * 50 + "\n"
Rule == "=================================================="

\* f"   * {key}: {value}\n" for key, value in vitals.items()
VitalLines(vitals) ==
    Flatten([i \in 1..Len(vitals) |-> <<"   * ", vitals[i][1], ": ", vitals[i][2]>>])

\* The "vital_signs" section of format_patient_history: the English branch
\* has one, the Arabic branch has none.
VitalSection(patient_data, lang) ==
    IF lang # "ar" /\ Has(patient_data, "vital_signs")
    THEN <<"EN:LAST RECORDED VITALS:">> \o VitalLines(patient_data.vital_signs)
    ELSE <<>>

\* format_patient_history(patient_data, language)
format_patient_history(patient_data, lang) ==
    IF ~Truthy(patient_data) THEN <<>>
    ELSE
        LET ar == lang = "ar"
            info == patient_data.personal_info
            head == <<Rule, IF ar THEN "AR:PATIENT INFORMATION" ELSE "EN:IMPORTANT PATIENT INFORMATION", Rule>>
            personal ==
                IF "personal_info" \in patient_data.keys /\ info.keys # {}
                THEN <<IF ar THEN "AR:Name: " ELSE "EN:Name: ", InfoGet(info, "name"),
                       IF ar THEN "AR:Age: " ELSE "EN:Age: ", InfoGet(info, "age"),
                       IF ar THEN "AR:Gender: " ELSE "EN:Gender: ", InfoGet(info, "gender")>>
                ELSE <<>>
            bullet == IF ar THEN "* " ELSE "   * "
            section(k, hdr, items) ==
                IF Has(patient_data, k) THEN <<hdr>> \o Lines(bullet, items) ELSE <<>>
            history == section("medical_history",
                IF ar THEN "AR:MEDICAL HISTORY:" ELSE "EN:KNOWN MEDICAL CONDITIONS (CRITICAL):",
                patient_data.medical_history)
            meds == section("medications",
                IF ar THEN "AR:CURRENT MEDICATIONS:" ELSE "EN:CURRENT MEDICATIONS (Check for interactions):",
                patient_data.medications)
            allergies == section("allergies",
                IF ar THEN "AR:ALLERGIES:" ELSE "EN:ALLERGIES (NEVER recommend these):",
                patient_data.allergies)
            visits == section("previous_visits",
                IF ar THEN "AR:PREVIOUS VISITS:" ELSE "EN:RECENT VISIT HISTORY:",
                LastN(patient_data.previous_visits, IF ar THEN 3 ELSE 5))
            closing == <<Rule, "INSTRUCTIONS: Always consider this patient's history when giving advice.", Rule>>
        IN  head \o personal \o history \o meds \o allergies \o visits
                 \o VitalSection(patient_data, lang) \o closing

\* f"{i}. {priority}\n" for i, priority in enumerate(top_priorities, 1)
Ordinals == <<"1. ", "2. ", "3. ", "4. ">>
Numbered(items) ==
    [i \in 1..(2 * Len(items)) |->
        IF i % 2 = 1 THEN Ordinals[(i + 1) \div 2] ELSE items[i \div 2]]

\* format_biomarker_context(report, language)
format_biomarker_context(report, lang) ==
    IF ~Truthy(report) THEN <<>>
    ELSE
        LET ar == lang = "ar"
            priorities ==
                IF "executive_summary" \in report.keys /\ report.top_priorities # <<>>
                THEN <<IF ar THEN "AR:Top Health Priorities:" ELSE "EN:Top Health Priorities:">>
                     \o Numbered(report.top_priorities)
                ELSE <<>>
        IN  <<IF ar THEN "AR:LAB REPORT INFORMATION:" ELSE "EN:LAB REPORT INFORMATION:">>
            \o priorities

\* ==================================================================== /chat
DOCTOR_SYSTEM_PROMPT_EN == <<"DOCTOR_SYSTEM_PROMPT_EN">>
DOCTOR_SYSTEM_PROMPT_AR == <<"DOCTOR_SYSTEM_PROMPT_AR">>

\* ---- request bodies
PatientDict(keys, info, history, meds, allergies, visits, vitals) ==
    [kind |-> "dict", keys |-> keys, personal_info |-> info,
     medical_history |-> history, medications |-> meds, allergies |-> allergies,
     previous_visits |-> visits, vital_signs |-> vitals]

NoInfo == [keys |-> {}, name |-> "", age |-> "", gender |-> ""]
NonePatient == [PatientDict({}, NoInfo, <<>>, <<>>, <<>>, <<>>, <<>>) EXCEPT !.kind = "none"]
EmptyPatient == PatientDict({}, NoInfo, <<>>, <<>>, <<>>, <<>>, <<>>)
SamplePatient ==
    PatientDict({"personal_info", "allergies", "vital_signs"},
                [keys |-> {"name", "age"}, name |-> "Ann", age |-> "40", gender |-> ""],
                <<>>, <<>>, <<"penicillin">>, <<>>, <<<<"bp", "120/80">>>>)

ReportDict(keys, priorities) == [kind |-> "dict", keys |-> keys, top_priorities |-> priorities]
NoneReport == [kind |-> "none", keys |-> {}, top_priorities |-> <<>>]
EmptyReport == ReportDict({}, <<>>)
SampleReport == ReportDict({"executive_summary"}, <<"ldl", "hba1c">>)
BareReport == ReportDict({"risk_score"}, <<>>)

NoneData == [kind |-> "none", keys |-> {}]
EmptyData == [kind |-> "dict", keys |-> {}]
SampleData == [kind |-> "dict", keys |-> {"ldl"}]

ChatMessages == {<<104, 105>>, <<32, 104, 105, 10>>, <<1593>>, <<104, 1872>>}
ChatLanguages == {"auto", "en", "ar", "fr"}
HistoryTurns ==
    {[role |-> "user", text |-> <<104>>], [role |-> "assistant", text |-> <<32, 1593>>],
     [role |-> "model", text |-> <<104>>]}
Histories == UNION {[1..n -> HistoryTurns] : n \in 0..MaxHistory}

\* ChatRequest; chat_history None and [] are both the empty sequence
ChatRequests ==
    [message : ChatMessages, language : ChatLanguages, chat_history : Histories,
     patient_data : {NonePatient, EmptyPatient, SamplePatient},
     biomarker_data : {NoneData, EmptyData, SampleData},
     biomarker_analysis : {NoneReport, EmptyReport, SampleReport}]

\* biomarker_predict(BiomarkerRequest(**biomarker_data)): a report, or None
\* when call_biomarker_api catches an exception
BiomarkerOracle == {SampleReport, BareReport, NoneReport}

\* response.text of model.generate_content, or "raise"
ModelReplies == {<<104, 32>>, <<32, 1593>>}

NoChatResponse ==
    [status_code |-> 0, reply |-> <<>>, detected_language |-> "", response_language |-> "",
     has_patient_data |-> FALSE, has_biomarker_report |-> FALSE]

\* detected_lang: lines 399-402
ResolveLanguage(rq, lang) ==
    IF rq.language = "auto" THEN detect_language(rq.message, lang)
    ELSE IF rq.language \in {"en", "ar"} THEN rq.language ELSE "en"

\* system_prompt after lines 407-412
PromptWithPatient(rq, lang) ==
    LET base == IF lang = "ar" THEN DOCTOR_SYSTEM_PROMPT_AR ELSE DOCTOR_SYSTEM_PROMPT_EN
    IN  IF Truthy(rq.patient_data)
        THEN base \o format_patient_history(rq.patient_data, lang)
        ELSE base

PromptWithBiomarker_Replaces(prompt, report, lang) ==
    IF Truthy(report) THEN format_biomarker_context(report, lang) ELSE prompt

\* system_prompt after lines 421-423
PromptWithBiomarker(prompt, report, lang) ==
    IF Truthy(report) THEN prompt \o format_biomarker_context(report, lang) ELSE prompt

MapRole_Verbatim(role) == role

\* role = "user" if msg.role == "user" else "model"
MapRole(role) == IF role = "user" THEN "user" ELSE "model"

\* contents: lines 426-435
BuildContents(prompt, history, message) ==
    <<[role |-> "user", text |-> prompt]>>
    \o [i \in 1..Len(history) |-> [role |-> MapRole(history[i].role), text |-> history[i].text]]
    \o <<[role |-> "user", text |-> strip(message)]>>

NeedsBiomarkerCall_IgnoresReport(rq) == Truthy(rq.biomarker_data)

\* if not biomarker_report and request.biomarker_data
NeedsBiomarkerCall(rq) == ~Truthy(rq.biomarker_analysis) /\ Truthy(rq.biomarker_data)

\* Handler entry up to "await call_biomarker_api(...)" or, without that call,
\* up to the model call.
ChatBegin ==
    /\ chat_pc = "idle"
    /\ \E rq \in ChatRequests, ld \in LangdetectOutcomes :
        LET lang == ResolveLanguage(rq, ld)
        IN  /\ request' = rq
            /\ detected_lang' = lang
            /\ system_prompt' = PromptWithPatient(rq, lang)
            /\ biomarker_report' = rq.biomarker_analysis
            /\ IF NeedsBiomarkerCall(rq)
               THEN /\ chat_pc' = "await_biomarker"
                    /\ biomarker_calls' = biomarker_calls + 1
               ELSE /\ chat_pc' = "compose"
                    /\ UNCHANGED biomarker_calls
    /\ UNCHANGED <<contents, chat_response>>
    /\ UNCHANGED notChat

\* call_biomarker_api returns the report, or None after an exception
ChatBiomarkerReturn ==
    /\ chat_pc = "await_biomarker"
    /\ \E report \in BiomarkerOracle : biomarker_report' = report
    /\ chat_pc' = "compose"
    /\ UNCHANGED <<request, detected_lang, system_prompt, contents, chat_response,
                   biomarker_calls>>
    /\ UNCHANGED notChat

\* Lines 420-449: the biomarker block, contents, the model call, the response.
ChatGenerate ==
    /\ chat_pc = "compose"
    /\ LET prompt == PromptWithBiomarker(system_prompt, biomarker_report, detected_lang)
       IN  /\ system_prompt' = prompt
           /\ contents' = BuildContents(prompt, request.chat_history, request.message)
    /\ \E reply \in ModelReplies, ld \in LangdetectOutcomes :
        LET reply_text == strip(reply)
        IN  chat_response' =
                [status_code |-> 200, reply |-> reply_text,
                 detected_language |-> detected_lang,
                 response_language |-> detect_language(reply_text, ld),
                 has_patient_data |-> IsNotNone(request.patient_data),
                 has_biomarker_report |-> IsNotNone(biomarker_report)]
    /\ chat_pc' = "done"
    /\ UNCHANGED <<request, detected_lang, biomarker_report, biomarker_calls>>
    /\ UNCHANGED notChat

\* model.generate_content raises: "except Exception", status 500
ChatModelFails ==
    /\ chat_pc = "compose"
    /\ LET prompt == PromptWithBiomarker(system_prompt, biomarker_report, detected_lang)
       IN  /\ system_prompt' = prompt
           /\ contents' = BuildContents(prompt, request.chat_history, request.message)
    /\ chat_response' = [NoChatResponse EXCEPT !.status_code = 500]
    /\ chat_pc' = "done"
    /\ UNCHANGED <<request, detected_lang, biomarker_report, biomarker_calls>>
    /\ UNCHANGED notChat

InitChat ==
    /\ chat_pc = "idle"
    /\ request = [message |-> <<>>, language |-> "auto", chat_history |-> <<>>,
                  patient_data |-> NonePatient, biomarker_data |-> NoneData,
                  biomarker_analysis |-> NoneReport]
    /\ detected_lang = "en"
    /\ system_prompt = <<>>
    /\ biomarker_report = NoneReport
    /\ contents = <<>>
    /\ chat_response = NoChatResponse
    /\ biomarker_calls = 0

NextChat ==
    \/ ChatBegin
    \/ ChatBiomarkerReturn
    \/ ChatGenerate
    \/ ChatModelFails



\* ========================================================= detect_language
\* 'h', ' ', U+0600, U+06FF, U+0750, U+077F, U+08A0
Alphabet == {104, 32, 1536, 1791, 1872, 1919, 2208}
Texts == UNION {[1..n -> Alphabet] : n \in 0..MaxTextLen}

DetectCall ==
    /\ det_result = ""
    /\ \E text \in Texts, ld \in LangdetectOutcomes :
        /\ det_text' = text
        /\ det_langdetect' = ld
        /\ det_result' = detect_language(text, ld)
    /\ UNCHANGED notDetect

InitDetect ==
    /\ det_text = <<>>
    /\ det_langdetect = "raise"
    /\ det_result = ""

NextDetect == DetectCall

\* ================================================== format_patient_history
VisitNames == <<"v1", "v2", "v3", "v4", "v5", "v6", "v7", "v8">>
FullInfo == [keys |-> {"name", "age", "gender"}, name |-> "Ann", age |-> "40", gender |-> "F"]
SampleVitals == <<<<"bp", "120/80">>, <<"pulse", "72">>>>

\* Every record over the six fields: each key absent, present and empty, or
\* present and filled; previous_visits of every length up to MaxVisits.
FieldStates == {"absent", "empty", "full"}
ListKeys == {"medical_history", "medications", "allergies", "vital_signs"}
PatientRecords ==
    {PatientDict(
        {k \in ListKeys : st[k] # "absent"}
            \cup (IF info = "absent" THEN {} ELSE {"personal_info"})
            \cup (IF nv < 0 THEN {} ELSE {"previous_visits"}),
        IF info = "full" THEN FullInfo ELSE NoInfo,
        IF st["medical_history"] = "full" THEN <<"asthma", "diabetes">> ELSE <<>>,
        IF st["medications"] = "full" THEN <<"metformin">> ELSE <<>>,
        IF st["allergies"] = "full" THEN <<"penicillin">> ELSE <<>>,
        IF nv <= 0 THEN <<>> ELSE SubSeq(VisitNames, 1, nv),
        IF st["vital_signs"] = "full" THEN SampleVitals ELSE <<>>) :
     st \in [ListKeys -> FieldStates], info \in FieldStates, nv \in (-1)..MaxVisits}

FormatCall ==
    /\ ~fmt_called
    /\ \E patient \in PatientRecords \cup {NonePatient}, lang \in {"en", "ar"} :
        /\ fmt_patient' = patient
        /\ fmt_language' = lang
        /\ fmt_context' = format_patient_history(patient, lang)
    /\ fmt_called' = TRUE
    /\ UNCHANGED notFormat

InitFormat ==
    /\ fmt_patient = NonePatient
    /\ fmt_language = "en"
    /\ fmt_context = <<>>
    /\ fmt_called = FALSE

NextFormat == FormatCall

\* ===================================================================== /tts
\* EDGE_TTS_VOICES.get(detected_lang, EDGE_TTS_VOICES["en"])
EDGE_TTS_VOICES(lang) ==
    IF lang = "ar" THEN "ar-SA-ZariyahNeural" ELSE "en-US-AriaNeural"

\* re.search(r'[\u0600-\u06FF]', req.text)
SearchArabicBasic(text) == \E i \in 1..Len(text) : text[i] \in 1536..1791

TtsTexts == {<<104, 105>>, <<32>>, <<1593>>, <<104, 1872>>, <<2208>>}
TtsLanguageCodes == {"auto", "en", "ar", "fr"}
TtsVoices == {None, "", "custom-voice-id"}
TtsRequests == [text : TtsTexts, language_code : TtsLanguageCodes, voice : TtsVoices]

\* A chunk of communicate.stream(): its type and the length of its data
StreamChunks ==
    {[type |-> "audio", data |-> 2], [type |-> "audio", data |-> 0],
     [type |-> "WordBoundary", data |-> 0]}
Streams == UNION {[1..n -> StreamChunks] : n \in 0..MaxStream}

NoTtsResponse ==
    [status_code |-> 0, body |-> [nbytes |-> 0, pos |-> 0], language |-> "", voice |-> "",
     error |-> ""]

\* detected_lang: lines 662-669
TtsResolveLanguage(r, ld) ==
    LET declared ==
            IF r.language_code = "auto" THEN detect_language(r.text, ld)
            ELSE IF r.language_code \in {"en", "ar"} THEN r.language_code ELSE "en"
    IN  IF SearchArabicBasic(r.text) THEN "ar" ELSE declared

TtsResolveVoice_AlwaysDefault(r, lang) == EDGE_TTS_VOICES(lang)

\* voice: line 672
TtsResolveVoice(r, lang) ==
    IF r.voice # None /\ r.voice # "" THEN r.voice ELSE EDGE_TTS_VOICES(lang)

\* Lines 660-684: language and voice are resolved, the buffer is created and
\* the stream is opened.
TtsBegin ==
    /\ tts_pc = "idle"
    /\ \E r \in TtsRequests, ld \in LangdetectOutcomes, chunks \in Streams :
        LET lang == TtsResolveLanguage(r, ld)
        IN  /\ req' = r
            /\ tts_lang' = lang
            /\ voice' = TtsResolveVoice(r, lang)
            /\ stream' = chunks
    /\ audio_buffer' = [nbytes |-> 0, pos |-> 0]
    /\ tts_pc' = "streaming"
    /\ UNCHANGED tts_response
    /\ UNCHANGED notTts

\* async for chunk in communicate.stream(): audio data is written
TtsChunk ==
    /\ tts_pc = "streaming"
    /\ stream # <<>>
    /\ LET chunk == Head(stream)
       IN  audio_buffer' =
               IF chunk.type = "audio"
               THEN [nbytes |-> audio_buffer.nbytes + chunk.data,
                     pos |-> audio_buffer.pos + chunk.data]
               ELSE audio_buffer
    /\ stream' = Tail(stream)
    /\ UNCHANGED <<tts_pc, req, tts_lang, voice, tts_response>>
    /\ UNCHANGED notTts

TtsErrorResponse(msg) == [NoTtsResponse EXCEPT !.status_code = 500, !.error = msg]

BufferEmpty_NeverChecked(buf) == FALSE

\* if audio_buffer.getbuffer().nbytes == 0
BufferEmpty(buf) == buf.nbytes = 0

\* The stream ends: seek(0), the emptiness test, the response.
TtsStreamEnd ==
    /\ tts_pc = "streaming"
    /\ stream = <<>>
    /\ audio_buffer' = [audio_buffer EXCEPT !.pos = 0]
    /\ tts_response' =
        IF BufferEmpty(audio_buffer) THEN TtsErrorResponse("No audio data generated")
        ELSE [status_code |-> 200, body |-> [audio_buffer EXCEPT !.pos = 0],
              language |-> tts_lang, voice |-> voice, error |-> ""]
    /\ tts_pc' = "done"
    /\ UNCHANGED <<req, tts_lang, voice, stream>>
    /\ UNCHANGED notTts

\* communicate.stream() raises: re-raised, then the outer "except Exception"
TtsStreamFails ==
    /\ tts_pc = "streaming"
    /\ tts_response' = TtsErrorResponse("exception")
    /\ tts_pc' = "done"
    /\ UNCHANGED <<req, tts_lang, voice, stream, audio_buffer>>
    /\ UNCHANGED notTts

InitTts ==
    /\ tts_pc = "idle"
    /\ req = [text |-> <<>>, language_code |-> "auto", voice |-> None]
    /\ tts_lang = "en"
    /\ voice = None
    /\ stream = <<>>
    /\ audio_buffer = [nbytes |-> 0, pos |-> 0]
    /\ tts_response = NoTtsResponse

NextTts ==
    \/ TtsBegin
    \/ TtsChunk
    \/ TtsStreamEnd
    \/ TtsStreamFails

\* ====================================== patient-data folder, /chat-history
\* A patient identifier is a sequence of name pieces, so that "ann_chat" is
\* "ann" followed by "_chat"; a file name adds its suffix pieces.
PatientNames == {<<"ann">>, <<"ann", "_chat">>, <<"bob">>}

\* Path(PATIENT_DATA_FOLDER) / f"{patient_name}.json"
PatientFile(name) == name \o <<".json">>

\* Path(PATIENT_DATA_FOLDER) / f"{patient_name}_chat.json"
ChatFile(name) == name \o <<"_chat", ".json">>

FileNames == {PatientFile(n) : n \in PatientNames} \cup {ChatFile(n) : n \in PatientNames}

\* A JSON document of the folder: a patient record, or the dict that
\* save_chat_history dumps. json.dump followed by json.load gives back the
\* strings, lists and numbers that were written.
Absent == [kind |-> "absent", patient_name |-> <<>>, chat_history |-> <<>>,
           message_count |-> 0, last_updated |-> ""]
PatientDoc(name) ==
    [kind |-> "patient_record", patient_name |-> name, chat_history |-> <<>>,
     message_count |-> 0, last_updated |-> ""]

TurnsToJson_RolesMapped(chat_history) ==
    [i \in 1..Len(chat_history) |->
        [role |-> MapRole(chat_history[i].role), text |-> chat_history[i].text]]

\* [{"role": msg.role, "text": msg.text} for msg in request.chat_history]
TurnsToJson(chat_history) ==
    [i \in 1..Len(chat_history) |->
        [role |-> chat_history[i].role, text |-> chat_history[i].text]]

\* data of save_chat_history
ChatDoc(name, chat_history, now) ==
    [kind |-> "chat_transcript", patient_name |-> name,
     chat_history |-> TurnsToJson(chat_history),
     message_count |-> Len(chat_history), last_updated |-> now]

UserTurn == [role |-> "user", text |-> <<104>>]
AssistantTurn == [role |-> "assistant", text |-> <<32, 1593>>]
Transcripts == {<<>>, <<UserTurn>>, <<UserTurn, AssistantTurn>>, <<AssistantTurn, UserTurn>>}

NoStoreResponse == [op |-> "", name |-> <<>>, status_code |-> 0, data |-> Absent, names |-> {}]
StoreResponse(op, name, code, data) ==
    [op |-> op, name |-> name, status_code |-> code, data |-> data, names |-> {}]

NotSaved == [saved |-> FALSE, turns |-> <<>>]

\* POST /chat-history
SaveChatHistory(name) ==
    /\ \E chat_history \in Transcripts :
        /\ files' = [files EXCEPT ![ChatFile(name)] =
                        ChatDoc(name, chat_history, "datetime.now().isoformat()")]
        /\ store_response' = StoreResponse("save_chat_history", name, 200,
                [Absent EXCEPT !.kind = "saved", !.patient_name = name,
                               !.message_count = Len(chat_history)])
        /\ last_saved' = [last_saved EXCEPT ![name] = [saved |-> TRUE, turns |-> chat_history]]
    /\ UNCHANGED notStore

\* POST /chat-history when open() or json.dump raises before anything is written
SaveChatHistoryFails(name) ==
    /\ store_response' = StoreResponse("save_chat_history", name, 500, Absent)
    /\ UNCHANGED <<files, last_saved>>
    /\ UNCHANGED notStore

\* GET /chat-history/{patient_name}
GetChatHistory(name) ==
    /\ store_response' =
        IF files[ChatFile(name)] = Absent
        THEN StoreResponse("get_chat_history", name, 200,
                [Absent EXCEPT !.kind = "chat_transcript", !.patient_name = name])
        ELSE StoreResponse("get_chat_history", name, 200, files[ChatFile(name)])
    /\ UNCHANGED <<files, last_saved>>
    /\ UNCHANGED notStore

\* DELETE /chat-history/{patient_name}
DeleteChatHistory(name) ==
    /\ files' = [files EXCEPT ![ChatFile(name)] = Absent]
    /\ store_response' = StoreResponse("delete_chat_history", name, 200,
            [Absent EXCEPT !.kind = IF files[ChatFile(name)] # Absent
                                    THEN "Chat history deleted"
                                    ELSE "No chat history found"])
    /\ last_saved' = [last_saved EXCEPT ![name] = NotSaved]
    /\ UNCHANGED notStore

\* load_patient_data(patient_name)
load_patient_data(name) ==
    IF name \in PatientNames /\ files[PatientFile(name)] # Absent
    THEN files[PatientFile(name)] ELSE Absent

\* GET /patient/{patient_name}
GetPatientData(name) ==
    /\ store_response' =
        IF load_patient_data(name) = Absent
        THEN StoreResponse("get_patient_data", name, 404, Absent)
        ELSE StoreResponse("get_patient_data", name, 200, load_patient_data(name))
    /\ UNCHANGED <<files, last_saved>>
    /\ UNCHANGED notStore

\* f.stem for the *.json files of the folder
Stem(file) == SubSeq(file, 1, Len(file) - 1)

\* GET /patients: stems that do not end with "_chat"
ListPatients ==
    /\ store_response' =
        [StoreResponse("list_patients", <<>>, 200, Absent) EXCEPT !.names =
            {Stem(f) : f \in {g \in FileNames :
                files[g] # Absent /\ Stem(g)[Len(Stem(g))] # "_chat"}}]
    /\ UNCHANGED <<files, last_saved>>
    /\ UNCHANGED notStore

\* The folder holds the record files of some patients and no transcript.
StartStore(folders) ==
    /\ \E patients \in folders :
        files = [f \in FileNames |->
                    IF \E n \in patients : f = PatientFile(n)
                    THEN PatientDoc(Stem(f)) ELSE Absent]
    /\ store_response = NoStoreResponse
    /\ last_saved = [n \in PatientNames |-> NotSaved]

InitStore == StartStore(SUBSET PatientNames)

NextStore ==
    \/ \E name \in PatientNames :
        \/ SaveChatHistory(name)
        \/ SaveChatHistoryFails(name)
        \/ GetChatHistory(name)
        \/ DeleteChatHistory(name)
        \/ GetPatientData(name)
    \/ ListPatients

\* Each specification runs one part of the service from its initial states,
\* the other parts at rest.
RestStt == StartStt({TRUE})
RestStore == StartStore({{}})

InitSttSpec == InitStt /\ InitChat /\ InitDetect /\ InitFormat /\ InitTts /\ RestStore
InitRest == RestStt /\ InitChat /\ InitDetect /\ InitFormat /\ InitTts /\ RestStore
InitStoreSpec == RestStt /\ InitChat /\ InitDetect /\ InitFormat /\ InitTts /\ InitStore

SpecStt == InitSttSpec /\ [][NextStt]_vars
SpecChat == InitRest /\ [][NextChat]_vars
SpecDetect == InitRest /\ [][NextDetect]_vars
SpecFormat == InitRest /\ [][NextFormat]_vars
SpecTts == InitRest /\ [][NextTts]_vars
SpecStore == InitStoreSpec /\ [][NextStore]_vars

\* ------------------------------------------------------------ /stt claims
Finished(r) == pc[r] = "done"
UnavailableMessage == "Speech-to-text not available. Vosk models not found."

\* C1: once the handler has returned, on every exit path, neither the raw
\* upload temp file nor the transcoded WAV temp file of that request exists.
C1_TempFilesRemoved ==
    \A r \in Tasks : Finished(r) => InputPath(r) \notin fs /\ WavPath(r) \notin fs

\* C7: with STT_AVAILABLE false every /stt call returns 503 with the
\* unavailability message, and no temp file is created, no ffmpeg run is
\* started and no recognizer is constructed.
C7_UnavailableFailsFast ==
    ~STT_AVAILABLE =>
        /\ fs = {}
        /\ ffmpeg_runs = 0
        /\ recognizers = 0
        /\ \A r \in Tasks :
            /\ pc[r] \in {"idle", "done"}
            /\ Finished(r) => stt_response[r] = ErrorResponse(503, UnavailableMessage)

C7_Witness ==
    /\ ~STT_AVAILABLE
    /\ \A r \in Tasks : Finished(r) /\ stt_response[r].status_code = 503

\* C8: while one request is inside the transcoding call or the recognition
\* loop, every other request waiting at its await can take its next step.
C8_OthersCanStep ==
    \A r, q \in Tasks :
        (r # q /\ pc[r] \in {"ffmpeg", "recognize"} /\ pc[q] = "await_read")
            => ENABLED (SttReadDone(q) \/ SttReadFails(q))

\* C10: an uploaded (read and stored) silent or empty clip yields 200 with an empty transcript and status
\* no_speech, never an error; and a returned status is no_speech exactly when
\* the trimmed transcript is empty, success otherwise.
C10_SilentIsNoSpeech ==
    \A r \in Tasks :
        (STT_AVAILABLE /\ Finished(r) /\ tmp_input_path[r] # None) =>
            /\ upload[r].kind \in {"empty", "silent"} =>
                    /\ stt_response[r].status_code = 200
                    /\ stt_response[r].transcript = <<>>
                    /\ stt_response[r].status = "no_speech"
            /\ stt_response[r].status_code = 200 =>
                    stt_response[r].status =
                        IF stt_response[r].transcript = <<>> THEN "no_speech" ELSE "success"

\* ----------------------------------------------------------- /chat claims
IsPrefix(p, t) == Len(p) <= Len(t) /\ SubSeq(t, 1, Len(p)) = p

\* C2: the turn sequence sent to the model has n+2 entries: a user turn with
\* the system prompt, then each history turn in the caller's order with role
\* user for "user" and model otherwise and its text untouched, then a user
\* turn with the trimmed message.
C2_TurnOrderPreserved ==
    chat_pc = "done" =>
        LET h == request.chat_history
            n == Len(h)
        IN  /\ Len(contents) = n + 2
            /\ contents[1].role = "user"
            /\ contents[1].text = system_prompt
            /\ \A i \in 1..n :
                /\ contents[i + 1].role = (IF h[i].role = "user" THEN "user" ELSE "model")
                /\ contents[i + 1].text = h[i].text
            /\ contents[n + 2].role = "user"
            /\ contents[n + 2].text = strip(request.message)
            /\ \/ contents[n + 2].text = <<>>
               \/ /\ ~IsSpace(Head(contents[n + 2].text))
                  /\ ~IsSpace(contents[n + 2].text[Len(contents[n + 2].text)])

C2_Witness ==
    /\ chat_pc = "done"
    /\ chat_response.status_code = 200
    /\ Len(request.chat_history) >= 2
    /\ request.chat_history[1].role = "assistant"
    /\ request.chat_history[2].role = "user"
    /\ request.message # strip(request.message)

\* C5: the composed system prompt is the base template of the resolved
\* language, then the patient block if a patient record is supplied, then the
\* biomarker block if a report is available; the base template is an
\* unmodified prefix and context is only appended.
C5_PromptBlocksInOrder ==
    LET base == IF detected_lang = "ar" THEN DOCTOR_SYSTEM_PROMPT_AR
                ELSE DOCTOR_SYSTEM_PROMPT_EN
        patient == format_patient_history(request.patient_data, detected_lang)
        bio == format_biomarker_context(biomarker_report, detected_lang)
    IN  /\ chat_pc \in {"await_biomarker", "compose"} => system_prompt = base \o patient
        /\ chat_pc = "done" =>
            /\ system_prompt = base \o patient \o bio
            /\ IsPrefix(base, system_prompt)
            /\ IsPrefix(base \o patient, system_prompt)
            /\ contents[1].text = system_prompt

C5_Witness ==
    /\ chat_pc = "done"
    /\ detected_lang = "ar"
    /\ Truthy(request.patient_data)
    /\ Truthy(biomarker_report)
    /\ Len(system_prompt) >
         Len(DOCTOR_SYSTEM_PROMPT_AR) + Len(format_patient_history(request.patient_data, "ar"))

\* ------------------------------------------- language and formatter claims
\* An Arabic-script character: U+0600-U+06FF, U+0750-U+077F, U+08A0-U+08FF
ArabicScript(c) ==
    \/ 1536 <= c /\ c <= 1791
    \/ 1872 <= c /\ c <= 1919
    \/ 2208 <= c /\ c <= 2303

HasArabicScript(text) == \E i \in 1..Len(text) : ArabicScript(text[i])

Contains(seq, token) == \E i \in 1..Len(seq) : seq[i] = token

\* C3: a /tts response for a text with at least one Arabic-script character
\* reports language "ar", whatever language_code was requested.
C3_ArabicTextSpeaksArabic ==
    (tts_pc = "done" /\ tts_response.status_code = 200 /\ HasArabicScript(req.text))
        => tts_response.language = "ar"

\* C4: detect_language returns "ar" for every text with at least one
\* Arabic-script character, whatever langdetect would answer or raise; and it
\* always returns one of the two tags.
C4_ArabicScriptDetected ==
    det_result # "" =>
        /\ det_result \in {"en", "ar"}
        /\ HasArabicScript(det_text) => det_result = "ar"

C4_Witness ==
    /\ det_result = "ar"
    /\ det_langdetect \in {"en", "raise"}
    /\ \E i \in 1..Len(det_text) : det_text[i] = 1872
    /\ \A i \in 1..Len(det_text) : det_text[i] \notin 1536..1791

\* C6: for both languages, every non-empty field of a supplied patient record
\* has its section in the patient block: personal info, medical history,
\* medications, allergies, previous visits, and vital signs as key/value pairs.
C6_EverySectionPresent ==
    fmt_called =>
        LET ar == fmt_language = "ar"
            p == fmt_patient
            items(list) == \A i \in 1..Len(list) : Contains(fmt_context, list[i])
        IN  /\ ("personal_info" \in p.keys /\ p.personal_info.keys # {}) =>
                    /\ Contains(fmt_context, IF ar THEN "AR:Name: " ELSE "EN:Name: ")
                    /\ Contains(fmt_context, IF ar THEN "AR:Age: " ELSE "EN:Age: ")
                    /\ Contains(fmt_context, IF ar THEN "AR:Gender: " ELSE "EN:Gender: ")
            /\ p.medical_history # <<>> =>
                    /\ Contains(fmt_context, IF ar THEN "AR:MEDICAL HISTORY:"
                                             ELSE "EN:KNOWN MEDICAL CONDITIONS (CRITICAL):")
                    /\ items(p.medical_history)
            /\ p.medications # <<>> =>
                    /\ Contains(fmt_context, IF ar THEN "AR:CURRENT MEDICATIONS:"
                                             ELSE "EN:CURRENT MEDICATIONS (Check for interactions):")
                    /\ items(p.medications)
            /\ p.allergies # <<>> =>
                    /\ Contains(fmt_context, IF ar THEN "AR:ALLERGIES:"
                                             ELSE "EN:ALLERGIES (NEVER recommend these):")
                    /\ items(p.allergies)
            /\ p.previous_visits # <<>> =>
                    /\ Contains(fmt_context, IF ar THEN "AR:PREVIOUS VISITS:"
                                             ELSE "EN:RECENT VISIT HISTORY:")
                    /\ Contains(fmt_context, p.previous_visits[Len(p.previous_visits)])
            /\ \A v \in 1..Len(p.vital_signs) :
                    \E i \in 1..(Len(fmt_context) - 2) :
                        /\ fmt_context[i] = p.vital_signs[v][1]
                        /\ fmt_context[i + 1] = ": "
                        /\ fmt_context[i + 2] = p.vital_signs[v][2]

\* ---------------------------------------------------- /chat-history claims
\* C9: after a successful save of H under an identifier, with no later save
\* or delete for it, GET /chat-history for the identifier returns H (role,
\* text and order) with message_count = Len(H).
C9_SaveLoadRoundTrip ==
    \A n \in PatientNames :
        (store_response.op = "get_chat_history" /\ store_response.name = n
            /\ last_saved[n].saved) =>
            /\ store_response.status_code = 200
            /\ Len(store_response.data.chat_history) = Len(last_saved[n].turns)
            /\ \A i \in 1..Len(last_saved[n].turns) :
                /\ store_response.data.chat_history[i].role = last_saved[n].turns[i].role
                /\ store_response.data.chat_history[i].text = last_saved[n].turns[i].text
            /\ store_response.data.message_count = Len(last_saved[n].turns)

C9_Witness ==
    /\ store_response.op = "get_chat_history"
    /\ store_response.name = <<"ann">>
    /\ last_saved[<<"ann">>].saved
    /\ Len(last_saved[<<"ann">>].turns) = 2
    /\ last_saved[<<"ann">>].turns[1].role = "assistant"
    /\ last_saved[<<"bob">>].saved
    /\ last_saved[<<"bob">>].turns # last_saved[<<"ann">>].turns

\* ------------------------------------------------------- /stt, continued
\* C11: whatever the language parameter was, a returned transcript result
\* names a detected language in {en, ar}; it is "ar" exactly when the Arabic
\* model was the one handed to the recognizer, and a parameter that is neither
\* "en" nor "ar" (unspecified, or any other string) is reported as "en".
C11_DetectedLanguageIsModelUsed ==
    \A r \in Tasks :
        (Finished(r) /\ stt_response[r].status_code = 200) =>
            /\ stt_response[r].detected_language \in {"en", "ar"}
            /\ (stt_response[r].detected_language = "ar") <=> (model[r] = "vosk_model_ar")
            /\ language[r] \notin {"en", "ar"} => stt_response[r].detected_language = "en"

\* ------------------------------------------------------ /chat, continued
\* C12: the biomarker oracle is invoked if and only if no precomputed report
\* is supplied and raw biomarker input is supplied; a supplied precomputed
\* report is the report the biomarker block is built from, and the oracle is
\* then never called; when neither is supplied, no biomarker block is added.
\* A field is supplied when the request carries a non-empty object for it:
\* an empty object holds neither a report nor biomarker input.
C12_OracleIffNoReportAndRawInput ==
    chat_pc # "idle" =>
        /\ (biomarker_calls = 1) <=>
                (~Truthy(request.biomarker_analysis) /\ Truthy(request.biomarker_data))
        /\ biomarker_calls \in {0, 1}
        /\ Truthy(request.biomarker_analysis) =>
                /\ biomarker_calls = 0
                /\ biomarker_report = request.biomarker_analysis
                /\ chat_pc = "done" =>
                    system_prompt = PromptWithPatient(request, detected_lang)
                        \o format_biomarker_context(request.biomarker_analysis, detected_lang)
        /\ (chat_pc = "done" /\ ~Truthy(request.biomarker_analysis)
                /\ ~Truthy(request.biomarker_data)) =>
                system_prompt = PromptWithPatient(request, detected_lang)

C12_Witness ==
    /\ chat_pc = "done"
    /\ chat_response.status_code = 200
    /\ request.biomarker_analysis = SampleReport
    /\ request.biomarker_data = SampleData
    /\ biomarker_calls = 0
    /\ Contains(system_prompt, "EN:LAB REPORT INFORMATION:")
    /\ Contains(system_prompt, "hba1c")

\* ------------------------------------------------------- /tts, continued
VoiceGiven(r) == r.voice # None /\ r.voice # ""

\* C13: the voice handed to the synthesis engine, and the voice reported with
\* a successful response, is the caller's voice when the request names one
\* (a non-empty voice), otherwise the default of the resolved language:
\* the Arabic default for "ar", the English default for anything else.
C13_VoiceIsOverrideElseDefault ==
    tts_pc # "idle" =>
        /\ voice = (IF VoiceGiven(req) THEN req.voice
                    ELSE IF tts_lang = "ar" THEN "ar-SA-ZariyahNeural"
                    ELSE "en-US-AriaNeural")
        /\ (tts_pc = "done" /\ tts_response.status_code = 200) =>
                /\ tts_response.voice = voice
                /\ tts_response.language = tts_lang

C13_Witness ==
    /\ tts_pc = "done"
    /\ tts_response.status_code = 200
    /\ req.voice = "custom-voice-id"
    /\ req.text = <<1593>>
    /\ tts_lang = "ar"
    /\ tts_response.voice = "custom-voice-id"

\* C14: a /tts request whose synthesis wrote no audio bytes ends in an error
\* response (status 500 with a message), never in a successful one; a
\* successful response carries the whole buffer, non-empty and positioned at
\* its start.
C14_EmptySynthesisIsError ==
    tts_pc = "done" =>
        /\ audio_buffer.nbytes = 0 =>
                /\ tts_response.status_code = 500
                /\ tts_response.error # ""
        /\ tts_response.status_code = 200 =>
                /\ tts_response.body.nbytes > 0
                /\ tts_response.body.nbytes = audio_buffer.nbytes
                /\ tts_response.body.pos = 0
                /\ audio_buffer.pos = 0

C14_Witness ==
    /\ tts_pc = "done"
    /\ stream = <<>>
    /\ audio_buffer.nbytes = 0
    /\ tts_response.status_code = 500
    /\ tts_response.error = "No audio data generated"

\* ------------------------------------------ patient-data folder, continued
IsPatientRecord(doc) == doc.kind = "patient_record"

\* C15: no step of the folder's endpoints, POST /chat-history and
\* DELETE /chat-history included, changes the set of names for which
\* GET /patient/{name} serves a patient record, or the record served for any
\* of them.
C15_PatientRecordsUntouched ==
    [][/\ {n \in PatientNames : IsPatientRecord(load_patient_data(n))}'
            = {n \in PatientNames : IsPatientRecord(load_patient_data(n))}
       /\ \A n \in PatientNames :
            IsPatientRecord(load_patient_data(n))
                => load_patient_data(n)' = load_patient_data(n)]_vars

\* ------------------------------------------------- /chat response flags
PatientBlockAppended ==
    \/ Contains(system_prompt, "AR:PATIENT INFORMATION")
    \/ Contains(system_prompt, "EN:IMPORTANT PATIENT INFORMATION")

BiomarkerBlockAppended ==
    \/ Contains(system_prompt, "AR:LAB REPORT INFORMATION:")
    \/ Contains(system_prompt, "EN:LAB REPORT INFORMATION:")

\* C16: in a successful /chat response has_patient_data is true exactly when
\* the system prompt sent to the model carries a patient block, and
\* has_biomarker_report exactly when it carries a biomarker block, for absent,
\* empty and non-empty patient_data, biomarker_analysis and biomarker_data and
\* for a failed biomarker oracle.
C16_FlagsMatchBlocks ==
    (chat_pc = "done" /\ chat_response.status_code = 200) =>
        /\ contents[1].text = system_prompt
        /\ chat_response.has_patient_data <=> PatientBlockAppended
        /\ chat_response.has_biomarker_report <=> BiomarkerBlockAppended

====
